---- MODULE Spec2Model ----
(***************************************************************************)
(* Persistence layer of the dottie backend: the Assessment model           *)
(* (src/backend/models/Assessment.js) with its test-mode in-memory store   *)
(* and its production SQL statements, and the generic DbService            *)
(* (src/unnamed/part_002) with its conversation-preview fan-out.           *)
(*                                                                         *)
(* Every datastore call is one atomic step that either succeeds or fails   *)
(* with an error of Errors.  A handler with several awaits is several      *)
(* steps; statements of other callers may run between them.                *)
(***************************************************************************)
EXTENDS Integers, Sequences, FiniteSets, TLC

\* ---------------------------------------------------------------- bounds
MaxUuid == 2        \* uuids that uuidv4() hands out in one run
MaxClock == 1       \* the wall clock runs 0..MaxClock
MaxRowId == 2       \* ids of the rows of a DbService table: 1..MaxRowId
MaxConvs == 2       \* rows of the conversations table
MaxMsgs == 2        \* rows of the chat_messages table

\* latestMessage.content.substring(0, 50)
PreviewLen == 50

\* ------------------------------------------------------------ value sets
Users == {"u1", "u2"}
Errors == {"ECONNRESET", "ETIMEDOUT"}
DbOutcomes == {"ok"} \cup Errors
NotFoundError == "Error: not found"
ConstraintError == "SQLITE_CONSTRAINT"
Tables == {"temp_test_crud"}
Names == {"a", "b"}
RowIds == 1..MaxRowId

Undefined == "undefined"
PayloadKeys == <<"age", "painLevel">>
\* assessmentData objects; the last one carries a property whose value is
\* undefined, which JSON.stringify drops
Payloads ==
    { [age |-> "18-24", painLevel |-> "mild"],
      [age |-> "25-34", painLevel |-> Undefined] }

\* ------------------------------------------------------------- JS values
JsNull == [t |-> "null"]
JsNone == [t |-> "none"]
JsObject(o) == [t |-> "object", o |-> o]
JsArray(a) == [t |-> "array", a |-> a]
JsBool(b) == [t |-> "boolean", b |-> b]
\* an array holding the rows S, in the order the store returned them
JsRows(S) == [t |-> "rows", s |-> S]

\* a settled promise: the call (operation and the id or user it was given)
\* and what its caller gets
Resolved(op, id, v) ==
    [op |-> op, id |-> id, status |-> "resolved", value |-> v, error |-> "-"]
Rejected(op, id, e) ==
    [op |-> op, id |-> id, status |-> "rejected", value |-> JsNone, error |-> e]
\* a catch block that logs and returns null instead of rethrowing
RethrowAs_swallow(op, id, e) == Resolved(op, id, JsNull)
\* catch (error) { console.error(...); throw error; }
RethrowAs(op, id, e) == Rejected(op, id, e)

\* JSON.stringify of an assessmentData object: the text lists the
\* properties in order, leaving out those whose value is undefined
RECURSIVE StringifyFrom(_, _)
StringifyFrom(d, i) ==
    IF i > Len(PayloadKeys) THEN << >>
    ELSE LET k == PayloadKeys[i]
             rest == StringifyFrom(d, i + 1)
         IN IF d[k] = Undefined THEN rest ELSE << <<k, d[k]>> >> \o rest
JSONStringify(d) == StringifyFrom(d, 1)

\* JSON.parse of such a text: an object with exactly the listed properties
JSONParse(text) ==
    [k \in {text[i][1] : i \in DOMAIN text} |->
        text[CHOOSE i \in DOMAIN text : text[i][1] = k][2] ]

VARIABLES
    component,        \* the module the callers of this run go through
    isTestMode,       \* Assessment.js:8
    clock,            \* what new Date() reads
    testAssessments,  \* Assessment.js:5, in insertion order
    assessments,      \* rows of the assessments table
    nextUuid,         \* the next value of uuidv4()
    res,              \* how the last operation settled
    failed,           \* errors of the datastore calls that failed in that operation
    firstErr,         \* the first of them
    live,             \* history: <<id, userId>> of assessments created and not deleted
    deleted,          \* history: ids of assessments deleted
    tables,           \* DbService: table name -> its rows
    inCreate,         \* a DbService.create between its insert and its findById
    inUpdate,         \* a DbService.update between its update and its findById
    gone,             \* history: <<table, id>> deleted and not inserted again
    conversations,    \* rows of the conversations table
    chat_messages,    \* rows of the chat_messages table
    phase,            \* where getConversationsWithPreviews stands
    userId,           \* its argument
    convs,            \* its local: the conversations its first query returned
    slots,            \* the result array Promise.all fills
    fetching          \* indices of the per-conversation fetches still in flight

vars == <<component, isTestMode, clock, testAssessments, assessments, nextUuid,
          res, failed, firstErr, live, deleted, tables, inCreate, inUpdate, gone,
          conversations, chat_messages, phase, userId, convs, slots, fetching>>

previewVars == <<conversations, chat_messages, phase, userId, convs, slots, fetching>>

assessmentVars == <<isTestMode, testAssessments, assessments, nextUuid, live, deleted>>
dbVars == <<tables, inCreate, inUpdate, gone>>
Idle == [table |-> "-", id |-> 0]

NoRes == [op |-> "-", id |-> 0, status |-> "none", value |-> JsNone, error |-> "-"]
AssessmentIds == 1..MaxUuid

\* ------------------------------------------------ the in-memory test store
\* The object is a list of <<key, value>> entries in insertion order.
\* testAssessments[id], truthy exactly when the key is present
TestHas(store, id) == \E i \in DOMAIN store : store[i].key = id
TestGet(store, id) == store[CHOOSE i \in DOMAIN store : store[i].key = id].val
\* the not-found check left out
TestMissing_never(store, id) == FALSE
\* if (!testAssessments[id]) throw new Error(...)
TestMissing(store, id) == ~TestHas(store, id)
\* an update that stamps createdAt as well
TestSpreadUpdate_stampsCreatedAt(store, id, d, now) ==
    IF TestHas(store, id)
    THEN [TestGet(store, id) EXCEPT !.assessmentData = d, !.updatedAt = now,
                                    !.createdAt = now]
    ELSE [assessmentData |-> d, updatedAt |-> now]
\* { ...testAssessments[id], assessmentData, updatedAt: now }; spreading
\* undefined adds nothing
TestSpreadUpdate(store, id, d, now) ==
    IF TestHas(store, id)
    THEN [TestGet(store, id) EXCEPT !.assessmentData = d, !.updatedAt = now]
    ELSE [assessmentData |-> d, updatedAt |-> now]
\* testAssessments[id] = value: an existing key keeps its place, a new one
\* goes last
TestPut(store, id, v) ==
    IF TestHas(store, id)
    THEN [i \in DOMAIN store |->
            IF store[i].key = id THEN [key |-> id, val |-> v] ELSE store[i]]
    ELSE Append(store, [key |-> id, val |-> v])
\* delete testAssessments[id]
TestRemove(store, id) == SelectSeq(store, LAMBDA e : e.key # id)
\* Object.values(testAssessments)
ObjectValues(store) == [i \in DOMAIN store |-> store[i].val]
\* the filter left out
TestFilterByUser_all(store, u) == ObjectValues(store)
\* .filter(assessment => assessment.userId === userId); a value without a
\* userId property has userId undefined
TestFilterByUser(store, u) ==
    SelectSeq(ObjectValues(store),
              LAMBDA a : "userId" \in DOMAIN a /\ a.userId = u)

\* ------------------------------------------------- the assessments table
AssessmentRow(id, u, d, now) ==
    [id |-> id, user_id |-> u, assessment_data |-> JSONStringify(d),
     created_at |-> now, updated_at |-> now]
\* SELECT * FROM assessments WHERE id = ?
SqlSelectById(rows, id) == {r \in rows : r.id = id}
\* INSERT INTO assessments (...) VALUES (...)
SqlInsert(rows, row) == rows \cup {row}
\* UPDATE assessments SET assessment_data = ?, updated_at = ? WHERE id = ?
SqlUpdate(rows, id, text, now) ==
    { IF r.id = id THEN [r EXCEPT !.assessment_data = text, !.updated_at = now]
      ELSE r : r \in rows }
\* a DELETE without its WHERE clause
SqlDelete_noWhere(rows, id) == {}
\* DELETE FROM assessments WHERE id = ?
SqlDelete(rows, id) == {r \in rows : r.id # id}
\* SELECT * FROM assessments WHERE user_id = ?
SqlSelectByUser(rows, u) == {r \in rows : r.user_id = u}
\* ORDER BY created_at DESC: every listing of S that respects it (rows with
\* equal created_at come in an order the store picks)
OrderByCreatedAtDesc(S) ==
    { s \in [1..Cardinality(S) -> S] :
        /\ \A i, j \in DOMAIN s : i # j => s[i] # s[j]
        /\ \A i, j \in DOMAIN s : i < j => s[i].created_at >= s[j].created_at }
\* assessments.map(a => ({...a, assessmentData: JSON.parse(a.assessment_data)}))
MapParsed(s) ==
    [i \in DOMAIN s |->
        ("assessmentData" :> JSONParse(s[i].assessment_data)) @@ s[i]]
\* assessment && assessment.length > 0 ? assessment[0] : null
FirstOrNull(S) == IF S = {} THEN JsNull ELSE JsObject(CHOOSE r \in S : TRUE)
\* { ...updatedAssessment, assessmentData }; spreading null adds nothing
SpreadWithData(v, d) ==
    IF v = JsNull THEN JsObject([assessmentData |-> d])
    ELSE JsObject(("assessmentData" :> d) @@ v.o)

Settle(r, errs) ==
    /\ res' = r
    /\ failed' = errs
    /\ firstErr' = IF errs = {} THEN "-" ELSE CHOOSE e \in errs : TRUE

\* ------------------------------------------------------ Assessment model
\* what findById(id) resolves to when its query, if it makes one, succeeds
findByIdValue(id) ==
    IF isTestMode /\ TestHas(testAssessments, id)
    THEN JsObject(TestGet(testAssessments, id))
    ELSE FirstOrNull(SqlSelectById(assessments, id))

Assessment_findById(id) ==
    /\ component = "Assessment"
    /\ IF isTestMode /\ TestHas(testAssessments, id)
       THEN Settle(Resolved("findById", id, findByIdValue(id)), {})
       ELSE \E o \in DbOutcomes :
              IF o = "ok"
              THEN Settle(Resolved("findById", id, findByIdValue(id)), {})
              ELSE Settle(RethrowAs("findById", id, o), {o})
    /\ UNCHANGED <<component, isTestMode, clock, testAssessments, assessments,
                   nextUuid, live, deleted, dbVars, previewVars>>

Assessment_create(d, u) ==
    /\ component = "Assessment"
    /\ nextUuid <= MaxUuid
    /\ LET id == nextUuid
           now == clock
           a == [id |-> id, userId |-> u, assessmentData |-> d,
                 createdAt |-> now, updatedAt |-> now]
       IN IF isTestMode
          THEN /\ testAssessments' = TestPut(testAssessments, id, a)
               /\ Settle(Resolved("create", id, JsObject(a)), {})
               /\ nextUuid' = nextUuid + 1
               /\ live' = live \cup {<<id, u>>}
               /\ UNCHANGED assessments
          ELSE \E o \in DbOutcomes :
                 IF o = "ok"
                 THEN /\ assessments' = SqlInsert(assessments, AssessmentRow(id, u, d, now))
                      /\ Settle(Resolved("create", id, JsObject(a)), {})
                      /\ nextUuid' = nextUuid + 1
                      /\ live' = live \cup {<<id, u>>}
                      /\ UNCHANGED testAssessments
                 \* the uuid drawn by a failed create is never seen again
                 ELSE /\ Settle(RethrowAs("create", 0, o), {o})
                      /\ UNCHANGED <<testAssessments, assessments, nextUuid, live>>
    /\ UNCHANGED <<component, isTestMode, clock, deleted, dbVars, previewVars>>

Assessment_listByUser(u) ==
    /\ component = "Assessment"
    /\ IF isTestMode
       THEN Settle(Resolved("listByUser", u,
                            JsArray(TestFilterByUser(testAssessments, u))), {})
       ELSE \E o \in DbOutcomes :
              IF o = "ok"
              THEN \E s \in OrderByCreatedAtDesc(SqlSelectByUser(assessments, u)) :
                     Settle(Resolved("listByUser", u, JsArray(MapParsed(s))), {})
              ELSE Settle(RethrowAs("listByUser", u, o), {o})
    /\ UNCHANGED <<component, isTestMode, clock, testAssessments, assessments,
                   nextUuid, live, deleted, dbVars, previewVars>>

Assessment_update(id, d) ==
    /\ component = "Assessment"
    /\ LET now == clock
       IN IF isTestMode
          THEN /\ IF TestMissing(testAssessments, id)
                  THEN /\ Settle(RethrowAs("update", id, NotFoundError), {})
                       /\ UNCHANGED testAssessments
                  ELSE /\ testAssessments' =
                            TestPut(testAssessments, id,
                                    TestSpreadUpdate(testAssessments, id, d, now))
                       /\ Settle(Resolved("update", id,
                                    JsObject(TestGet(testAssessments', id))), {})
               /\ UNCHANGED assessments
          ELSE /\ \E o1 \in DbOutcomes :
                    IF o1 = "ok"
                    THEN /\ assessments' = SqlUpdate(assessments, id, JSONStringify(d), now)
                         \* const updatedAssessment = await this.findById(id)
                         /\ \E o2 \in DbOutcomes :
                              IF o2 = "ok"
                              THEN Settle(Resolved("update", id,
                                     SpreadWithData(
                                       FirstOrNull(SqlSelectById(assessments', id)), d)), {})
                              ELSE Settle(RethrowAs("update", id, o2), {o2})
                    ELSE /\ Settle(RethrowAs("update", id, o1), {o1})
                         /\ UNCHANGED assessments
               /\ UNCHANGED testAssessments
    /\ UNCHANGED <<component, isTestMode, clock, nextUuid, live, deleted, dbVars, previewVars>>

Assessment_delete(id) ==
    /\ component = "Assessment"
    /\ IF isTestMode
       THEN /\ IF TestMissing(testAssessments, id)
               THEN /\ Settle(RethrowAs("delete", id, NotFoundError), {})
                    /\ UNCHANGED <<testAssessments, live, deleted>>
               ELSE /\ testAssessments' = TestRemove(testAssessments, id)
                    /\ Settle(Resolved("delete", id, JsBool(TRUE)), {})
                    /\ live' = {p \in live : p[1] # id}
                    /\ deleted' = deleted \cup {id}
            /\ UNCHANGED assessments
       ELSE \E o \in DbOutcomes :
              IF o = "ok"
              THEN /\ assessments' = SqlDelete(assessments, id)
                   /\ Settle(Resolved("delete", id, JsBool(TRUE)), {})
                   /\ live' = {p \in live : p[1] # id}
                   /\ deleted' = IF \E p \in live : p[1] = id
                                 THEN deleted \cup {id} ELSE deleted
                   /\ UNCHANGED testAssessments
              ELSE /\ Settle(RethrowAs("delete", id, o), {o})
                   /\ UNCHANGED <<testAssessments, assessments, live, deleted>>
    /\ UNCHANGED <<component, isTestMode, clock, nextUuid, dbVars, previewVars>>

\* ------------------------------------------------------------ DbService
\* db(table).where('id', id)
WhereId(rows, id) == {r \in rows : r.id = id}
\* db(table).where(key, value) for every entry of a conditions object
WhereAll(rows, conds) == {r \in rows : \A k \in DOMAIN conds : r[k] = conds[k]}
\* .first(), then record || null
FirstRecordOrNull(S) == IF S = {} THEN JsNull ELSE JsObject(CHOOSE r \in S : TRUE)
\* the id the store gives a row inserted without one
GeneratedId(rows) == IF rows = {} THEN 1 ELSE 1 + CHOOSE m \in {r.id : r \in rows} :
                                                 \A r \in rows : r.id <= m
\* data.id || id
InsertedId(data, id) == IF data.id = 0 THEN id ELSE data.id
\* db(table).insert(data); an id of 0 stands for data without an id
KnexInsert(rows, data) ==
    rows \cup {[id |-> InsertedId(data, GeneratedId(rows)), name |-> data.name]}
\* db(table).where('id', id).update(data)
KnexUpdate(rows, id, data) ==
    { IF r.id = id THEN [r EXCEPT !.name = data.name] ELSE r : r \in rows }
\* query.delete() after the where clauses of the option
DeleteMatches(rows, option) ==
    IF option.kind = "object" THEN WhereAll(rows, option.conds)
    ELSE WhereId(rows, option.id)
KnexDelete(rows, option) == rows \ DeleteMatches(rows, option)

DbService_findById(t, id) ==
    /\ component = "DbService"
    /\ \E o \in DbOutcomes :
         IF o = "ok"
         THEN Settle(Resolved("db.findById", <<t, id>>,
                              FirstRecordOrNull(WhereId(tables[t], id))), {})
         ELSE Settle(RethrowAs("db.findById", <<t, id>>, o), {o})
    /\ UNCHANGED <<component, clock, assessmentVars, dbVars, previewVars>>

DbService_findBy(t, field, value) ==
    /\ component = "DbService"
    /\ \E o \in DbOutcomes :
         IF o = "ok"
         THEN Settle(Resolved("db.findBy", <<t, 0>>,
                              JsRows(WhereAll(tables[t], field :> value))), {})
         ELSE Settle(RethrowAs("db.findBy", <<t, 0>>, o), {o})
    /\ UNCHANGED <<component, clock, assessmentVars, dbVars, previewVars>>

DbService_getAll(t) ==
    /\ component = "DbService"
    /\ \E o \in DbOutcomes :
         IF o = "ok"
         THEN Settle(Resolved("db.getAll", <<t, 0>>, JsRows(tables[t])), {})
         ELSE Settle(RethrowAs("db.getAll", <<t, 0>>, o), {o})
    /\ UNCHANGED <<component, clock, assessmentVars, dbVars, previewVars>>

\* create up to its first await: the insert
DbService_createInsert(t, data) ==
    /\ component = "DbService"
    /\ inCreate = Idle
    /\ InsertedId(data, GeneratedId(tables[t])) \in RowIds
    /\ \E o \in DbOutcomes :
         LET id == InsertedId(data, GeneratedId(tables[t]))
         IN IF o = "ok" /\ WhereId(tables[t], id) = {}
            THEN /\ tables' = [tables EXCEPT ![t] = KnexInsert(@, data)]
                 /\ inCreate' = [table |-> t, id |-> id, name |-> data.name]
                 /\ gone' = gone \ {<<t, id>>}
                 /\ UNCHANGED <<res, failed, firstErr>>
            ELSE LET e == IF o = "ok" THEN ConstraintError ELSE o
                 IN /\ Settle(RethrowAs("db.create", <<t, id>>, e), {e})
                    /\ UNCHANGED <<tables, inCreate, gone>>
    /\ UNCHANGED <<component, clock, assessmentVars, inUpdate, previewVars>>

\* create after the insert: this.findById(table, data.id || id)
DbService_createFind ==
    /\ component = "DbService"
    /\ inCreate # Idle
    /\ \E o \in DbOutcomes :
         IF o = "ok"
         THEN Settle(Resolved("db.create", <<inCreate.table, inCreate.id>>,
                  FirstRecordOrNull(WhereId(tables[inCreate.table], inCreate.id))), {})
         ELSE Settle(RethrowAs("db.create", <<inCreate.table, inCreate.id>>, o), {o})
    /\ inCreate' = Idle
    /\ UNCHANGED <<component, clock, assessmentVars, tables, inUpdate, gone, previewVars>>

\* update up to its first await: the update statement
DbService_updateStmt(t, id, data) ==
    /\ component = "DbService"
    /\ inUpdate = Idle
    /\ \E o \in DbOutcomes :
         IF o = "ok"
         THEN /\ tables' = [tables EXCEPT ![t] = KnexUpdate(@, id, data)]
              /\ inUpdate' = [table |-> t, id |-> id]
              /\ UNCHANGED <<res, failed, firstErr>>
         ELSE /\ Settle(RethrowAs("db.update", <<t, id>>, o), {o})
              /\ UNCHANGED <<tables, inUpdate>>
    /\ UNCHANGED <<component, clock, assessmentVars, inCreate, gone, previewVars>>

\* update after the statement: this.findById(table, id)
DbService_updateFind ==
    /\ component = "DbService"
    /\ inUpdate # Idle
    /\ \E o \in DbOutcomes :
         IF o = "ok"
         THEN Settle(Resolved("db.update", <<inUpdate.table, inUpdate.id>>,
                  FirstRecordOrNull(WhereId(tables[inUpdate.table], inUpdate.id))), {})
         ELSE Settle(RethrowAs("db.update", <<inUpdate.table, inUpdate.id>>, o), {o})
    /\ inUpdate' = Idle
    /\ UNCHANGED <<component, clock, assessmentVars, tables, inCreate, gone, previewVars>>

DeleteOptions ==
    {[kind |-> "id", id |-> i] : i \in RowIds}
        \cup {[kind |-> "object", conds |-> [name |-> n]] : n \in Names}

DbService_delete(t, option) ==
    /\ component = "DbService"
    /\ \E o \in DbOutcomes :
         IF o = "ok"
         THEN LET count == Cardinality(DeleteMatches(tables[t], option))
              IN /\ tables' = [tables EXCEPT ![t] = KnexDelete(@, option)]
                 /\ Settle(Resolved("db.delete",
                                     <<t, IF option.kind = "id" THEN option.id ELSE 0>>,
                                     JsBool(count > 0)), {})
                 /\ gone' = gone \cup {<<t, r.id>> : r \in DeleteMatches(tables[t], option)}
         ELSE /\ Settle(RethrowAs("db.delete",
                                   <<t, IF option.kind = "id" THEN option.id ELSE 0>>, o), {o})
              /\ UNCHANGED <<tables, gone>>
    /\ UNCHANGED <<component, clock, assessmentVars, inCreate, inUpdate, previewVars>>

\* --------------------------------- DbService.getConversationsWithPreviews
\* message contents: a short one and one longer than the preview, each
\* starting with a character that names its conversation
MkContent(c, n) == [i \in 1..n |-> IF i = 1 THEN 100 + c ELSE i]
ContentLengths == {2, PreviewLen + 2}

\* the whole content, not cut
Substring50_whole(content) == content
\* content.substring(0, 50)
Substring50(content) ==
    IF Len(content) <= PreviewLen THEN content ELSE SubSeq(content, 1, PreviewLen)
\* db('conversations').where('user_id', userId).orderBy('updated_at', 'desc'):
\* every listing that respects the order
ConversationsOf(u) ==
    LET S == {c \in conversations : c.user_id = u}
    IN { s \in [1..Cardinality(S) -> S] :
           /\ \A i, j \in DOMAIN s : i # j => s[i] # s[j]
           /\ \A i, j \in DOMAIN s : i < j => s[i].updated_at >= s[j].updated_at }
\* db('chat_messages').where('conversation_id', id).orderBy('created_at', 'desc')
\* .first(): the rows that can come first
LatestMessages(id) ==
    LET S == {m \in chat_messages : m.conversation_id = id}
    IN {m \in S : \A n \in S : n.created_at <= m.created_at}
\* { id: conv.id, lastMessageDate: conv.updated_at, preview: ... }
PreviewEntry(conv, preview) ==
    [id |-> conv.id, lastMessageDate |-> conv.updated_at, preview |-> preview]
EmptySlot == [id |-> 0]
\* results pushed in the order the fetches complete
PromiseAllStore_push(results, i, v) ==
    [results EXCEPT ![CHOOSE k \in DOMAIN results :
                        /\ results[k] = EmptySlot
                        /\ \A j \in 1..(k - 1) : results[j] # EmptySlot] = v]
\* Promise.all stores the value of the i-th promise at index i
PromiseAllStore(results, i, v) == [results EXCEPT ![i] = v]

\* another caller's DbService.create('conversations', ...)
Conversations_insert(u) ==
    /\ component = "Previews"
    /\ phase = "idle" /\ res = NoRes
    /\ Cardinality(conversations) < MaxConvs
    /\ conversations' = conversations \cup
          {[id |-> Cardinality(conversations) + 1, user_id |-> u, updated_at |-> clock]}
    /\ UNCHANGED <<component, clock, assessmentVars, dbVars, res, failed, firstErr,
                   chat_messages, phase, userId, convs, slots, fetching>>

\* another caller's DbService.create('chat_messages', ...)
ChatMessages_insert(c, n) ==
    /\ component = "Previews"
    /\ phase = "idle" /\ res = NoRes
    /\ Cardinality(chat_messages) < MaxMsgs
    /\ \E conv \in conversations : conv.id = c
    /\ chat_messages' = chat_messages \cup
          {[conversation_id |-> c, content |-> MkContent(c, n), created_at |-> clock]}
    /\ UNCHANGED <<component, clock, assessmentVars, dbVars, res, failed, firstErr,
                   conversations, phase, userId, convs, slots, fetching>>

\* up to the first await: the conversations query
getConversationsWithPreviews_query(u) ==
    /\ component = "Previews"
    /\ phase = "idle" /\ res = NoRes
    /\ userId' = u
    /\ \E o \in DbOutcomes :
         IF o = "ok"
         THEN \E s \in ConversationsOf(u) :
                /\ convs' = s
                /\ slots' = [i \in DOMAIN s |-> EmptySlot]
                /\ fetching' = DOMAIN s
                /\ phase' = "fanout"
                /\ UNCHANGED <<res, failed, firstErr>>
         ELSE /\ Settle(RethrowAs("previews", u, o), {o})
              /\ phase' = "done"
              /\ UNCHANGED <<convs, slots, fetching>>
    /\ UNCHANGED <<component, clock, assessmentVars, dbVars, conversations, chat_messages>>

\* the latest-message query of conversation i completes.  The first one to
\* fail rejects Promise.all, which the catch block rethrows; the other
\* fetches still run to completion and their outcomes are dropped.
getConversationsWithPreviews_fetch(i) ==
    /\ component = "Previews"
    /\ i \in fetching
    /\ fetching' = fetching \ {i}
    /\ \E o \in DbOutcomes :
         IF o = "ok"
         THEN /\ IF phase # "fanout" THEN slots' = slots
                 ELSE \/ /\ LatestMessages(convs[i].id) = {}
                         /\ slots' = PromiseAllStore(slots, i,
                                                     PreviewEntry(convs[i], << >>))
                      \/ \E m \in LatestMessages(convs[i].id) :
                           slots' = PromiseAllStore(slots, i,
                                      PreviewEntry(convs[i], Substring50(m.content)))
              /\ UNCHANGED <<res, failed, firstErr, phase>>
         ELSE /\ failed' = failed \cup {o}
              /\ firstErr' = IF failed = {} THEN o ELSE firstErr
              /\ res' = IF phase = "fanout"
                        THEN RethrowAs("previews", userId, o) ELSE res
              /\ phase' = "rejected"
              /\ slots' = << >>
    \* once rejected, nothing reads the handler's locals again
    /\ convs' = IF phase' = "rejected" THEN << >> ELSE convs
    /\ UNCHANGED <<component, clock, assessmentVars, dbVars, conversations,
                   chat_messages, userId>>

\* Promise.all fulfils once every fetch has: return conversationsWithPreviews
getConversationsWithPreviews_return ==
    /\ component = "Previews"
    /\ phase = "fanout"
    /\ fetching = {}
    /\ Settle(Resolved("previews", userId, JsArray(slots)), {})
    /\ phase' = "done"
    /\ UNCHANGED <<component, clock, assessmentVars, dbVars, conversations,
                   chat_messages, userId, convs, slots, fetching>>

\* Every timestamp ever written, in any store
Timestamps ==
    {e.val.createdAt : e \in {testAssessments[i] : i \in DOMAIN testAssessments}}
      \cup {e.val.updatedAt : e \in {testAssessments[i] : i \in DOMAIN testAssessments}}
      \cup {r.created_at : r \in assessments} \cup {r.updated_at : r \in assessments}
      \cup {c.updated_at : c \in conversations}
      \cup {m.created_at : m \in chat_messages}

\* Time passes.  The code only stores and compares what new Date() and NOW()
\* read, so an instant nothing was stamped with is not told apart from the
\* next one: the clock moves on once the current instant has been used.
Tick ==
    /\ clock < MaxClock
    /\ component # "DbService"
    /\ component = "Previews" => (phase = "idle" /\ res = NoRes)
    /\ clock \in Timestamps
    /\ clock' = clock + 1
    /\ UNCHANGED <<component, isTestMode, testAssessments, assessments, nextUuid,
                   res, failed, firstErr, live, deleted, dbVars, previewVars>>

Init ==
    /\ component \in {"Assessment", "DbService", "Previews"}
    /\ isTestMode \in (IF component = "Assessment" THEN BOOLEAN ELSE {FALSE})
    /\ clock = 0
    /\ testAssessments = << >>
    /\ assessments = {}
    /\ nextUuid = 1
    /\ res = NoRes
    /\ failed = {}
    /\ firstErr = "-"
    /\ live = {}
    /\ deleted = {}
    /\ tables = [t \in Tables |-> {}]
    /\ inCreate = Idle
    /\ inUpdate = Idle
    /\ gone = {}
    /\ conversations = {}
    /\ chat_messages = {}
    /\ phase = "idle"
    /\ userId = "-"
    /\ convs = << >>
    /\ slots = << >>
    /\ fetching = {}

Next ==
    \/ Tick
    \/ \E id \in AssessmentIds : Assessment_findById(id)
    \/ \E d \in Payloads, u \in Users : Assessment_create(d, u)
    \/ \E u \in Users : Assessment_listByUser(u)
    \/ \E id \in AssessmentIds, d \in Payloads : Assessment_update(id, d)
    \/ \E id \in AssessmentIds : Assessment_delete(id)
    \/ \E t \in Tables, id \in RowIds : DbService_findById(t, id)
    \/ \E t \in Tables, n \in Names : DbService_findBy(t, "name", n)
    \/ \E t \in Tables : DbService_getAll(t)
    \/ \E t \in Tables, id \in {0} \cup RowIds, n \in Names :
          DbService_createInsert(t, [id |-> id, name |-> n])
    \/ DbService_createFind
    \/ \E t \in Tables, id \in RowIds, n \in Names :
          DbService_updateStmt(t, id, [name |-> n])
    \/ DbService_updateFind
    \/ \E t \in Tables, option \in DeleteOptions : DbService_delete(t, option)
    \/ \E u \in Users : Conversations_insert(u)
    \/ \E c \in 1..MaxConvs, n \in ContentLengths : ChatMessages_insert(c, n)
    \/ \E u \in Users : getConversationsWithPreviews_query(u)
    \/ \E i \in 1..MaxConvs : getConversationsWithPreviews_fetch(i)
    \/ getConversationsWithPreviews_return

Spec == Init /\ [][Next]_vars

\* ================================================================ claims
Range(s) == {s[i] : i \in DOMAIN s}
\* the stored assessments, whichever store the mode uses; data is the
\* payload as stored (the object in test mode, its JSON text in production)
StoredAssessments ==
    IF isTestMode
    THEN {[key |-> e.key, id |-> e.val.id, userId |-> e.val.userId,
           data |-> e.val.assessmentData,
           createdAt |-> e.val.createdAt, updatedAt |-> e.val.updatedAt]
          : e \in Range(testAssessments)}
    ELSE {[key |-> r.id, id |-> r.id, userId |-> r.user_id,
           data |-> r.assessment_data,
           createdAt |-> r.created_at, updatedAt |-> r.updated_at]
          : r \in assessments}
LiveIds == {p[1] : p \in live}
IsEmptyValue(v) ==
    \/ v.t = "null"
    \/ v.t = "array" /\ Len(v.a) = 0
    \/ v.t = "object" /\ DOMAIN v.o = {}
    \/ v.t = "rows" /\ v.s = {}

\* C1: create(d, u) directly followed by findById of the returned id yields
\* an assessment with the id, userId and assessmentData that create returned,
\* in test mode and in production mode.
C1_CreateFindRoundTrip ==
    [][ ( /\ component = "Assessment"
          /\ res.op = "create" /\ res.status = "resolved"
          /\ res'.op = "findById" /\ res'.status = "resolved"
          /\ res'.id = res.id )
        => /\ res'.value.t = "object"
           /\ {"id", "userId", "assessmentData"} \subseteq DOMAIN res'.value.o
           /\ res'.value.o.id = res.value.o.id
           /\ res'.value.o.userId = res.value.o.userId
           /\ res'.value.o.assessmentData = res.value.o.assessmentData ]_vars

\* C2: update(id, d) on an existing assessment sets that assessment's stored
\* payload to d and its updatedAt to the current time, which is not earlier
\* than the previous updatedAt; its id, userId and createdAt stay, and no
\* other stored assessment is changed, added or removed.
C2_UpdateFrame ==
    [][ ( /\ component = "Assessment"
          /\ res'.op = "update"
          /\ clock' = clock )
        => LET id == res'.id
               ok == res'.status = "resolved"
           IN IF isTestMode
              THEN LET old == {e \in Range(testAssessments) : e.key = id}
                       new == {e \in Range(testAssessments') : e.key = id}
                   IN /\ {e \in Range(testAssessments) : e.key # id}
                           = {e \in Range(testAssessments') : e.key # id}
                      /\ old = {} => new = {}
                      /\ \A a \in old :
                           \E b \in new :
                             /\ new = {b}
                             /\ b.val.id = a.val.id
                             /\ b.val.userId = a.val.userId
                             /\ b.val.createdAt = a.val.createdAt
                             /\ b.val.updatedAt >= a.val.updatedAt
                             /\ ok => /\ b.val.updatedAt = clock
                                      /\ b.val.assessmentData
                                           = res'.value.o.assessmentData
              ELSE LET old == {r \in assessments : r.id = id}
                       new == {r \in assessments' : r.id = id}
                   IN /\ {r \in assessments : r.id # id}
                           = {r \in assessments' : r.id # id}
                      /\ old = {} => new = {}
                      /\ \A a \in old :
                           \E b \in new :
                             /\ new = {b}
                             /\ b.user_id = a.user_id
                             /\ b.created_at = a.created_at
                             /\ b.updated_at >= a.updated_at
                             /\ ok => /\ b.updated_at = clock
                                      /\ b.assessment_data
                                           = JSONStringify(res'.value.o.assessmentData)
           ]_vars
C2_Witness ==
    /\ component = "Assessment"
    /\ res.op = "update" /\ res.status = "resolved"
    /\ Cardinality(StoredAssessments) >= 2
    /\ \E a \in StoredAssessments : a.key = res.id /\ a.updatedAt > a.createdAt

\* C3: once an id has been deleted successfully, and until it is created
\* again, findById of it gives null (Assessment and DbService alike), and the
\* delete leaves every record with another id findable as before.
C3_DeletedIsNotFound ==
    /\ [] /\ component = "Assessment" =>
               /\ \A id \in deleted : findByIdValue(id) = JsNull
               /\ (res.op = "findById" /\ res.status = "resolved" /\ res.id \in deleted)
                     => res.value = JsNull
          /\ component = "DbService" =>
               /\ \A g \in gone : FirstRecordOrNull(WhereId(tables[g[1]], g[2])) = JsNull
               /\ (res.op = "db.findById" /\ res.status = "resolved" /\ res.id \in gone)
                     => res.value = JsNull
    /\ [][ /\ ( /\ component = "Assessment"
                /\ res'.op = "delete" /\ res'.status = "resolved" )
              => \A id \in AssessmentIds :
                   IF id = res'.id THEN findByIdValue(id)' = JsNull
                   ELSE findByIdValue(id)' = findByIdValue(id)
           /\ ( /\ component = "DbService"
                /\ res' # res
                /\ res'.op = "db.delete" /\ res'.status = "resolved"
                /\ res'.value.b /\ res'.id[2] # 0 )
              => /\ WhereId(tables'[res'.id[1]], res'.id[2]) = {}
                 /\ \A id \in RowIds \ {res'.id[2]} :
                      WhereId(tables'[res'.id[1]], id) = WhereId(tables[res'.id[1]], id)
                 /\ \A t \in Tables \ {res'.id[1]} : tables'[t] = tables[t] ]_vars
C3_Witness ==
    /\ component = "Assessment"
    /\ res.op = "findById" /\ res.status = "resolved"
    /\ res.id \in deleted
    /\ res.value = JsNull
    /\ live # {}

\* C4: listByUser(u) returns exactly the assessments created for u and not
\* deleted since, each once, and none of another user.
C4_ListByUserExact ==
    ( /\ component = "Assessment"
      /\ res.op = "listByUser" /\ res.status = "resolved" )
    => LET a == res.value.a
       IN /\ {a[i].id : i \in DOMAIN a} = {p[1] : p \in {q \in live : q[2] = res.id}}
          /\ \A i, j \in DOMAIN a : i # j => a[i].id # a[j].id
          /\ \A i \in DOMAIN a :
               \E st \in StoredAssessments : st.id = a[i].id /\ st.userId = res.id
C4_Witness ==
    /\ component = "Assessment"
    /\ res.op = "listByUser" /\ res.status = "resolved"
    /\ Len(res.value.a) >= 1
    /\ Len(res.value.a) < Cardinality(live)

\* C5: in test mode, update and delete of an id that is not in the in-memory
\* store raise an error and leave the store exactly as it was.
C5_TestModeNotFound ==
    [][ ( /\ component = "Assessment" /\ isTestMode
          /\ res' # res
          /\ res'.op \in {"update", "delete"}
          /\ ~TestHas(testAssessments, res'.id) )
        => /\ res'.status = "rejected"
           /\ res'.value = JsNone
           /\ testAssessments' = testAssessments ]_vars
C5_Witness ==
    /\ component = "Assessment" /\ isTestMode
    /\ res.op \in {"update", "delete"}
    /\ res.status = "rejected" /\ res.error = NotFoundError
    /\ testAssessments # << >>

\* C6: in production mode an operation on an id that does not exist raises
\* no error and gives null or an empty value (Assessment.findById,
\* Assessment.update, DbService.update), and the call creates no record.
C6_MissingIdGivesNull ==
    /\ ( /\ component = "Assessment" /\ ~isTestMode
         /\ res.op \in {"findById", "update"}
         /\ failed = {}
         /\ res.id \notin LiveIds )
       => /\ res.status = "resolved"
          /\ IsEmptyValue(res.value)
          /\ \A st \in StoredAssessments : st.id # res.id
    /\ ( /\ component = "DbService"
         /\ res.op = "db.update"
         /\ failed = {}
         /\ WhereId(tables[res.id[1]], res.id[2]) = {} )
       => /\ res.status = "resolved"
          /\ IsEmptyValue(res.value)

\* C7 (as stated): every datastore call of an operation that fails with an
\* error e makes the operation reject with that e, without a result value.
C7_EveryFailureRejectsWithIt ==
    \A e \in failed :
        /\ res.status = "rejected"
        /\ res.error = e
        /\ res.value = JsNone
\* C7 (amended): an operation in which a datastore call fails rejects with
\* the error of the first call that failed, unchanged and without a result
\* value; an operation none of whose calls failed does not reject with a
\* datastore error.
C7_FirstFailureRejects ==
    /\ failed # {} =>
         /\ res.status = "rejected"
         /\ res.error = firstErr
         /\ firstErr \in failed
         /\ res.value = JsNone
    /\ (res.status = "rejected" /\ res.error \in Errors) => res.error \in failed
    /\ (component # "Previews") => Cardinality(failed) <= 1
C7_Witness ==
    /\ phase = "rejected"
    /\ Cardinality(failed) = 2
    /\ res.status = "rejected" /\ res.error = firstErr

MessagesOf(c) == {m \in chat_messages : m.conversation_id = c}
IsPrefixOfLength(p, content, n) ==
    /\ Len(p) = IF Len(content) < n THEN Len(content) ELSE n
    /\ \A k \in 1..Len(p) : p[k] = content[k]

\* C8: getConversationsWithPreviews(u) returns one entry per conversation of
\* u; an entry's preview is the first 50 characters of the content of the
\* conversation's most recently created message, the empty string when it
\* has no message, and never longer than 50 characters.
C8_PreviewIsPrefixOfLatest ==
    ( /\ component = "Previews"
      /\ res.op = "previews" /\ res.status = "resolved" )
    => LET a == res.value.a
           mine == {c \in conversations : c.user_id = res.id}
       IN /\ Len(a) = Cardinality(mine)
          /\ \A c \in mine : \E i \in DOMAIN a : a[i].id = c.id
          /\ \A i \in DOMAIN a :
               /\ Len(a[i].preview) <= PreviewLen
               /\ IF MessagesOf(a[i].id) = {}
                  THEN a[i].preview = << >>
                  ELSE \E m \in MessagesOf(a[i].id) :
                         /\ \A n \in MessagesOf(a[i].id) : n.created_at <= m.created_at
                         /\ IsPrefixOfLength(a[i].preview, m.content, PreviewLen)
C8_Witness ==
    /\ component = "Previews"
    /\ res.op = "previews" /\ res.status = "resolved"
    /\ \E i \in DOMAIN res.value.a :
         /\ Len(res.value.a[i].preview) = PreviewLen
         /\ Cardinality(MessagesOf(res.value.a[i].id)) >= 2
    /\ \E c \in conversations : c.user_id # res.id

\* C9: whatever the order in which the per-conversation fetches complete,
\* the result lists the conversations in the order of the initial query
\* (updated_at descending) and entry i carries the id, lastMessageDate and
\* preview of conversation i.
BelongsTo(entry, conv) ==
    /\ entry.id = conv.id
    /\ entry.lastMessageDate = conv.updated_at
    /\ IF entry.preview = << >> THEN MessagesOf(conv.id) = {}
       ELSE entry.preview[1] = 100 + conv.id
C9_FanOutKeepsOrder ==
    component = "Previews" =>
      /\ phase = "fanout" =>
           \A i \in DOMAIN convs :
             IF i \in fetching THEN slots[i] = EmptySlot
             ELSE BelongsTo(slots[i], convs[i])
      /\ (res.op = "previews" /\ res.status = "resolved") =>
           LET a == res.value.a
           IN /\ Len(a) = Len(convs)
              /\ \A i \in DOMAIN a : BelongsTo(a[i], convs[i])
              /\ \A i, j \in DOMAIN a :
                   i < j => a[i].lastMessageDate >= a[j].lastMessageDate
              /\ Range(convs) = {c \in conversations : c.user_id = res.id}
C9_Witness ==
    /\ component = "Previews"
    /\ phase = "fanout"
    /\ Len(convs) >= 2
    /\ 1 \in fetching /\ 2 \notin fetching
    /\ BelongsTo(slots[2], convs[2])
    /\ slots[2].preview # << >>

\* C10: DbService.create resolves to the record its own insert stored, also
\* when updates and deletes of other callers run between the insert and the
\* findById that follows it.
C10_CreateResolvesToInserted ==
    [][ ( /\ component = "DbService"
          /\ inCreate # Idle /\ inCreate' = Idle
          /\ res'.status = "resolved" )
        => res'.value = JsObject([id |-> inCreate.id, name |-> inCreate.name]) ]_vars
====
